---- MODULE Spec2Model ----
(***************************************************************************)
(* Ticket resources of app/api/tickets.py: the TicketSchema validators,    *)
(* the create hook of TicketListPost, the list query of TicketList and the *)
(* detail lookup of TicketDetail, over a small ticket table.               *)
(***************************************************************************)
EXTENDS Integers, FiniteSets, Sequences, TLC

\* ---- bounds of the model ----
MaxTicketId == 1
MaxTime == 2
MaxQty == 1
MaxEvents == 1
MaxAttendees == 2
MaxRows == 2
MaxRelated == 1

\* A key that is not in the payload / view arguments, and JSON null (SQL NULL).
Absent == -2
None == -1

TicketIds == 1..MaxTicketId
Events == 1..MaxEvents
Times == 0..MaxTime
Quantities == 0..MaxQty
Procs == {1, 2}
Rows == 1..MaxRows
TicketTags == 1..MaxRelated
AccessCodes == 1..MaxRelated
Orders == 1..MaxRelated
Attendees == 1..MaxAttendees

VARIABLES
    tickets,             \* the Ticket table: id -> row
    request,             \* the request handled last
    response,            \* its outcome
    ticket_tags_table,   \* Ticket - TicketTag association rows <<ticket, tag>>
    access_codes,        \* Ticket.access_codes association rows <<ticket, code>>
    orders,              \* the Order table: id -> [identifier, tickets]
    ticket_holders,      \* the TicketHolder table: id -> [ticket_id]
    inflight             \* the PATCH requests between validation and write

vars == <<tickets, request, response, ticket_tags_table, access_codes, orders,
          ticket_holders, inflight>>

related == <<ticket_tags_table, access_codes, orders, ticket_holders>>

\* ---- outcomes ----
DateEndPointer == "/data/attributes/sales-ends-at"
MaxOrderPointer == "/data/attributes/max-order"
QuantityPointer == "/data/attributes/quantity"
EventPointer == "/data/relationships/event"

Ok(data) == [kind |-> "ok", pointer |-> "", data |-> data]
Raise(kind, pointer, data) == [kind |-> kind, pointer |-> pointer, data |-> data]

\* ---- the deserialized attributes of a ticket payload ----
Payloads ==
    [sales_starts_at : Times \cup {Absent},
     sales_ends_at   : Times \cup {Absent},
     min_order       : Quantities \cup {None, Absent},
     max_order       : Quantities \cup {None, Absent},
     quantity        : Quantities \cup {None, Absent},
     event           : Events \cup {Absent}]

\* Payloads that carry dates only (a PATCH of the sale window).
DatePayloads ==
    {d \in Payloads : /\ d.min_order = Absent /\ d.max_order = Absent
                      /\ d.quantity = Absent /\ d.event = Absent}

AttributePayloads == {d \in Payloads : d.event = Absent}

NoData ==
    [sales_starts_at |-> Absent, sales_ends_at |-> Absent, min_order |-> Absent,
     max_order |-> Absent, quantity |-> Absent, event |-> Absent]

\* validate_date with the comparison made only on the dates the payload itself
\* carries (nothing read from the stored ticket).
validate_date_payload_only(data, id, table) ==
    IF id # Absent /\ (data.sales_starts_at = Absent \/ data.sales_ends_at = Absent)
    THEN Ok(data)
    ELSE IF data.sales_starts_at = Absent \/ data.sales_ends_at = Absent
         THEN Raise("KeyError", "", data)
         ELSE IF data.sales_starts_at >= data.sales_ends_at
              THEN Raise("UnprocessableEntity", DateEndPointer, data)
              ELSE Ok(data)

\* TicketSchema.validate_date: on a payload with an id the stored ticket fills
\* in the dates the payload omits (in place, so the filled-in data is what the
\* data layer later receives); then the window is compared.
validate_date(data, id, table) ==
    IF id # Absent /\ id \notin DOMAIN table
    THEN Raise("NoResultFound", "", data)
    ELSE LET d1 == IF id # Absent /\ data.sales_starts_at = Absent
                   THEN [data EXCEPT !.sales_starts_at = table[id].sales_starts_at]
                   ELSE data
             d2 == IF id # Absent /\ d1.sales_ends_at = Absent
                   THEN [d1 EXCEPT !.sales_ends_at = table[id].sales_ends_at]
                   ELSE d1
         IN  IF d2.sales_starts_at = Absent \/ d2.sales_ends_at = Absent
             THEN Raise("KeyError", "", d2)
             ELSE IF d2.sales_starts_at >= d2.sales_ends_at
                  THEN Raise("UnprocessableEntity", DateEndPointer, d2)
                  ELSE Ok(d2)

\* a < b on two payload values that are present; with a null operand the
\* interpreter either raises TypeError (typeError) or orders None below every
\* integer.
Less(a, b, typeError) ==
    IF a = None \/ b = None
    THEN IF typeError THEN "TypeError"
         ELSE IF a = None /\ b # None THEN "true" ELSE "false"
    ELSE IF a < b THEN "true" ELSE "false"

\* validate_quantity with <= in place of <.
validate_quantity_inclusive(data, typeError) ==
    LET maxLess == IF data.max_order # Absent /\ data.min_order # Absent
                   THEN IF data.max_order = data.min_order THEN "true"
                        ELSE Less(data.max_order, data.min_order, typeError)
                   ELSE "false"
        qtyLess == IF data.quantity # Absent /\ data.min_order # Absent
                   THEN IF data.quantity = data.min_order THEN "true"
                        ELSE Less(data.quantity, data.min_order, typeError)
                   ELSE "false"
    IN  IF maxLess = "TypeError" THEN Raise("TypeError", "", data)
        ELSE IF maxLess = "true" THEN Raise("UnprocessableEntity", MaxOrderPointer, data)
        ELSE IF qtyLess = "TypeError" THEN Raise("TypeError", "", data)
        ELSE IF qtyLess = "true" THEN Raise("UnprocessableEntity", QuantityPointer, data)
        ELSE Ok(data)

\* TicketSchema.validate_quantity: only the keys of the payload are compared.
validate_quantity(data, typeError) ==
    LET maxLess == IF data.max_order # Absent /\ data.min_order # Absent
                   THEN Less(data.max_order, data.min_order, typeError)
                   ELSE "false"
        qtyLess == IF data.quantity # Absent /\ data.min_order # Absent
                   THEN Less(data.quantity, data.min_order, typeError)
                   ELSE "false"
    IN  IF maxLess = "TypeError" THEN Raise("TypeError", "", data)
        ELSE IF maxLess = "true" THEN Raise("UnprocessableEntity", MaxOrderPointer, data)
        ELSE IF qtyLess = "TypeError" THEN Raise("TypeError", "", data)
        ELSE IF qtyLess = "true" THEN Raise("UnprocessableEntity", QuantityPointer, data)
        ELSE Ok(data)

\* load with the schema validators in the other order.
load_quantity_first(data, id, table, typeError) ==
    LET counted == validate_quantity(data, typeError)
    IN  IF counted.kind # "ok" THEN counted
        ELSE validate_date(data, id, table)

\* Schema load: the schema validators in the order they are registered
\* (validate_date, then validate_quantity); the first exception ends the load.
load(data, id, table, typeError) ==
    LET dated == validate_date(data, id, table)
    IN  IF dated.kind # "ok" THEN dated
        ELSE validate_quantity(dated.data, typeError)

\* require_relationship(['event'], data)
require_relationship(data) ==
    IF data.event = Absent
    THEN Raise("UnprocessableEntity", EventPointer, data)
    ELSE Ok(data)

\* TicketListPost.before_post: without access the message of the ObjectNotFound
\* is formatted from data['event_id'], a key the schema never produces.
before_post(data, access) ==
    LET required == require_relationship(data)
    IN  IF required.kind # "ok" THEN required
        ELSE IF ~access THEN Raise("KeyError", "", data)
        ELSE Ok(data)

\* A stored column: a key the payload omits is stored as NULL.
Column(v) == IF v = Absent THEN None ELSE v

\* The row the data layer creates from the loaded data.
create_object(data) ==
    [event           |-> data.event,
     sales_starts_at |-> data.sales_starts_at,
     sales_ends_at   |-> data.sales_ends_at,
     min_order       |-> Column(data.min_order),
     max_order       |-> Column(data.max_order),
     quantity        |-> Column(data.quantity)]

\* The row after the data layer has set every key of the loaded data on the
\* object the session loaded (loaded) and flushed: the UPDATE carries the
\* columns whose value differs from the loaded one, on top of the stored row.
Updated(v, was, now) == IF v = Absent \/ v = was THEN now ELSE v

update_object(data, loaded, stored) ==
    [event           |-> stored.event,
     sales_starts_at |-> Updated(data.sales_starts_at, loaded.sales_starts_at, stored.sales_starts_at),
     sales_ends_at   |-> Updated(data.sales_ends_at, loaded.sales_ends_at, stored.sales_ends_at),
     min_order       |-> Updated(data.min_order, loaded.min_order, stored.min_order),
     max_order       |-> Updated(data.max_order, loaded.max_order, stored.max_order),
     quantity        |-> Updated(data.quantity, loaded.quantity, stored.quantity)]

Idle == [pc |-> "idle", id |-> Absent, data |-> NoData, loaded |-> NoData]

NoRequest == [op |-> "none", id |-> Absent, data |-> NoData, access |-> FALSE]
NoResponse == [kind |-> "none", pointer |-> ""]

Init ==
    /\ tickets = <<>>
    /\ request = NoRequest
    /\ response = NoResponse
    /\ ticket_tags_table = {}
    /\ access_codes = {}
    /\ orders = <<>>
    /\ ticket_holders = <<>>
    /\ inflight = [p \in Procs |-> Idle]

\* POST /tickets: schema load, before_post, then the data layer creates the row.
\* Every handler reads and writes only the row its request names, so the
\* write specifications follow one ticket, from the POST that creates it.
Post(payloads) ==
    /\ request.op = "none"
    /\ tickets = <<>>
    /\ \E data \in payloads, access \in BOOLEAN, typeError \in BOOLEAN :
        LET loaded == load(data, Absent, tickets, typeError)
            hooked == IF loaded.kind # "ok" THEN loaded
                      ELSE before_post(loaded.data, access)
        IN  /\ request' = [op |-> "POST", id |-> Absent, data |-> data,
                           access |-> access]
            /\ response' = [kind |-> IF hooked.kind = "ok" THEN "Created" ELSE hooked.kind,
                            pointer |-> hooked.pointer]
            /\ tickets' = IF hooked.kind = "ok"
                          THEN Append(tickets, create_object(hooked.data))
                          ELSE tickets
            /\ UNCHANGED <<related, inflight>>

\* PATCH /tickets/<id> by a co-organizer of the ticket's event, handled without
\* interruption: schema load (partial), then the data layer updates the row.
Patch(payloads) ==
    /\ request.op = "none"
    /\ \A p \in Procs : inflight[p].pc = "idle"
    /\ \E id \in DOMAIN tickets, data \in payloads, typeError \in BOOLEAN :
        LET loaded == load(data, id, tickets, typeError)
        IN  /\ request' = [op |-> "PATCH", id |-> id, data |-> data,
                           access |-> TRUE]
            /\ response' = [kind |-> IF loaded.kind = "ok" THEN "OK" ELSE loaded.kind,
                            pointer |-> loaded.pointer]
            /\ tickets' = IF loaded.kind = "ok"
                          THEN [tickets EXCEPT ![id] = update_object(loaded.data, tickets[id], tickets[id])]
                          ELSE tickets
            /\ UNCHANGED <<related, inflight>>

\* The response is sent; the server takes the next request.
Return ==
    /\ request.op # "none"
    /\ request' = NoRequest
    /\ response' = NoResponse
    /\ UNCHANGED <<tickets, related, inflight>>

Next ==
    \/ Post(Payloads)
    \/ Patch(AttributePayloads)
    \/ Return

Spec == Init /\ [][Next]_vars

\* ---- interleaved PATCH requests -------------------------------------------
\* A PATCH of the sale window up to the end of the schema load: validate_date
\* has read the stored row into the request's session and filled the payload
\* in from it.
PatchValidate(p) ==
    /\ inflight[p].pc = "idle"
    /\ \E id \in DOMAIN tickets, data \in DatePayloads, typeError \in BOOLEAN :
        LET loaded == load(data, id, tickets, typeError)
        IN  /\ inflight' = IF loaded.kind = "ok"
                           THEN [inflight EXCEPT ![p] = [pc |-> "validated", id |-> id,
                                                         data |-> loaded.data,
                                                         loaded |-> tickets[id]]]
                           ELSE inflight
            /\ UNCHANGED <<tickets, request, response, related>>

\* The rest of that PATCH: the data layer sets the loaded data on the object
\* of the request's session and flushes.
PatchWrite(p) ==
    /\ inflight[p].pc = "validated"
    /\ tickets' = [tickets EXCEPT ![inflight[p].id] =
                       update_object(inflight[p].data, inflight[p].loaded, tickets[inflight[p].id])]
    /\ inflight' = [inflight EXCEPT ![p] = Idle]
    /\ UNCHANGED <<request, response, related>>

NextConc ==
    \/ Post(Payloads)
    \/ Return
    \/ \E p \in Procs : PatchValidate(p)
    \/ \E p \in Procs : PatchWrite(p)

SpecConc == Init /\ [][NextConc]_vars

\* ---- lookups ---------------------------------------------------------------
Found(row) == [kind |-> "ok", parameter |-> "", row |-> row]
NotFound(kind, parameter) == [kind |-> kind, parameter |-> parameter, row |-> <<>>]

\* safe_query(self, model, column_name, value, parameter_name): the one row of
\* the model whose column has the value; ObjectNotFound for the parameter
\* when there is none; the column is an attribute of the model class.
safe_query(rows, columns, column_name, value, parameter_name) ==
    IF column_name \notin columns
    THEN NotFound("AttributeError", "")
    ELSE LET hits == {i \in DOMAIN rows : rows[i][column_name] = value}
         IN  IF hits = {}
             THEN NotFound("ObjectNotFound", parameter_name)
             ELSE Found(rows[CHOOSE i \in hits : TRUE])

\* The tables the lookups read, as id -> row.
TicketTagRows == [g \in TicketTags |-> [id |-> g]]
AccessCodeRows == [c \in AccessCodes |-> [id |-> c]]
EventRows == [e \in Events |-> [id |-> e]]
TicketHolderRows == [a \in DOMAIN ticket_holders |-> [id |-> a, ticket_id |-> ticket_holders[a].ticket_id]]
OrderRows == [o \in DOMAIN orders |-> [id |-> o, identifier |-> orders[o].identifier,
                                       tickets |-> orders[o].tickets]]
OrderColumns == {"id", "identifier", "tickets"}

\* The identifier of order o, never the number of its id.
Identifier(o) == o + MaxRelated + 1

\* event_query(self, query_, view_kwargs): the query restricted to the event
\* named by event_id, which must exist.
event_query(query_, view_kwargs) ==
    IF view_kwargs.event_id = Absent
    THEN [kind |-> "ok", parameter |-> "", query |-> query_]
    ELSE LET event == safe_query(EventRows, {"id"}, "id", view_kwargs.event_id, "event_id")
         IN  IF event.kind # "ok"
             THEN [kind |-> event.kind, parameter |-> event.parameter, query |-> {}]
             ELSE [kind |-> "ok", parameter |-> "",
                   query |-> {t \in query_ : tickets[t].event = event.row.id}]

Failed(found) == [kind |-> found.kind, parameter |-> found.parameter, result |-> {}]

\* TicketList.query
query(view_kwargs) ==
    LET all == DOMAIN tickets
        ticket_tag == IF view_kwargs.ticket_tag_id # Absent
                      THEN safe_query(TicketTagRows, {"id"}, "id", view_kwargs.ticket_tag_id, "ticket_tag_id")
                      ELSE Found(<<>>)
        q1 == IF view_kwargs.ticket_tag_id # Absent /\ ticket_tag.kind = "ok"
              THEN {t \in all : <<t, ticket_tag.row.id>> \in ticket_tags_table}
              ELSE all
        evented == event_query(q1, view_kwargs)
        q2 == evented.query
        access_code == IF view_kwargs.access_code_id # Absent
                       THEN safe_query(AccessCodeRows, {"id"}, "id", view_kwargs.access_code_id, "access_code_id")
                       ELSE Found(<<>>)
        \* query_ = Ticket.query.filter(...): a new query on the whole table
        q3 == IF view_kwargs.access_code_id # Absent /\ access_code.kind = "ok"
              THEN {t \in all : <<t, access_code.row.id>> \in access_codes}
              ELSE q2
        identified == IF view_kwargs.order_identifier # Absent
                      THEN safe_query(OrderRows, OrderColumns, "identifer", view_kwargs.order_identifier, "order_identifer")
                      ELSE Found(<<>>)
        order_id == IF view_kwargs.order_identifier # Absent /\ identified.kind = "ok"
                    THEN identified.row.id
                    ELSE view_kwargs.order_id
        order == IF order_id # Absent
                 THEN safe_query(OrderRows, OrderColumns, "id", order_id, "order_id")
                 ELSE Found(<<>>)
        q4 == IF order_id # Absent /\ order.kind = "ok"
              THEN {t \in q3 : t \in order.row.tickets}
              ELSE q3
    IN  IF ticket_tag.kind # "ok" THEN Failed(ticket_tag)
        ELSE IF evented.kind # "ok" THEN Failed(evented)
        ELSE IF access_code.kind # "ok" THEN Failed(access_code)
        ELSE IF identified.kind # "ok" THEN Failed(identified)
        ELSE IF order.kind # "ok" THEN Failed(order)
        ELSE [kind |-> "ok", parameter |-> "", result |-> q4]

ListArgs ==
    [ticket_tag_id    : (1..MaxRelated + 1) \cup {Absent},
     event_id         : (1..MaxEvents + 1) \cup {Absent},
     access_code_id   : (1..MaxRelated + 1) \cup {Absent},
     order_identifier : {Identifier(o) : o \in 1..MaxRelated + 1} \cup {Absent},
     order_id         : (1..MaxRelated + 1) \cup {Absent}]

\* A stored ticket of an event, its sale window open from 0 to 1.
Row(event) ==
    [event |-> event, sales_starts_at |-> 0, sales_ends_at |-> 1,
     min_order |-> None, max_order |-> None, quantity |-> None]

InitList ==
    /\ tickets \in [Rows -> {Row(e) : e \in Events}]
    /\ ticket_tags_table \in SUBSET (Rows \X TicketTags)
    /\ access_codes \in SUBSET (Rows \X AccessCodes)
    /\ orders \in [Orders -> [identifier : {Identifier(o) : o \in Orders}, tickets : SUBSET Rows]]
    /\ \A o \in Orders : orders[o].identifier = Identifier(o)
    /\ ticket_holders = <<>>
    /\ request = NoRequest
    /\ response = NoResponse
    /\ inflight = [p \in Procs |-> Idle]

\* GET on one of the ticket list routes.
List ==
    /\ request.op = "none"
    /\ \E view_kwargs \in ListArgs :
        /\ request' = [op |-> "LIST", view_kwargs |-> view_kwargs]
        /\ response' = query(view_kwargs)
        /\ UNCHANGED <<tickets, related, inflight>>

NextList ==
    \/ List
    \/ Return

SpecList == InitList /\ [][NextList]_vars

\* before_get_object without the else branch: an attendee with no ticket
\* leaves the id of the view arguments as it was.
before_get_object_keeps_id(view_kwargs) ==
    IF view_kwargs.attendee_id # Absent
    THEN LET attendee == safe_query(TicketHolderRows, {"id", "ticket_id"}, "id",
                                    view_kwargs.attendee_id, "attendee_id")
         IN  IF attendee.kind # "ok"
             THEN [kind |-> attendee.kind, parameter |-> attendee.parameter,
                   view_kwargs |-> view_kwargs]
             ELSE IF attendee.row.ticket_id # None
                  THEN [kind |-> "ok", parameter |-> "",
                        view_kwargs |-> [view_kwargs EXCEPT !.id = attendee.row.ticket_id]]
                  ELSE [kind |-> "ok", parameter |-> "", view_kwargs |-> view_kwargs]
    ELSE [kind |-> "ok", parameter |-> "", view_kwargs |-> view_kwargs]

\* TicketDetail.before_get_object
before_get_object(view_kwargs) ==
    IF view_kwargs.attendee_id # Absent
    THEN LET attendee == safe_query(TicketHolderRows, {"id", "ticket_id"}, "id",
                                    view_kwargs.attendee_id, "attendee_id")
         IN  IF attendee.kind # "ok"
             THEN [kind |-> attendee.kind, parameter |-> attendee.parameter,
                   view_kwargs |-> view_kwargs]
             ELSE IF attendee.row.ticket_id # None
                  THEN [kind |-> "ok", parameter |-> "",
                        view_kwargs |-> [view_kwargs EXCEPT !.id = attendee.row.ticket_id]]
                  ELSE [kind |-> "ok", parameter |-> "",
                        view_kwargs |-> [view_kwargs EXCEPT !.id = None]]
    ELSE [kind |-> "ok", parameter |-> "", view_kwargs |-> view_kwargs]

DetailArgs ==
    [attendee_id : (1..MaxAttendees + 1) \cup {Absent},
     id          : (1..MaxTicketId + 1) \cup {Absent}]

HolderTables ==
    UNION {[present -> [ticket_id : TicketIds \cup {None}]] : present \in SUBSET Attendees}

InitDetail ==
    /\ tickets = <<>>
    /\ ticket_tags_table = {}
    /\ access_codes = {}
    /\ orders = <<>>
    /\ ticket_holders \in HolderTables
    /\ request = NoRequest
    /\ response = NoResponse
    /\ inflight = [p \in Procs |-> Idle]

\* A request on a ticket detail route, up to the lookup of the object.
Detail ==
    /\ request.op = "none"
    /\ \E view_kwargs \in DetailArgs :
        /\ request' = [op |-> "DETAIL", view_kwargs |-> view_kwargs]
        /\ response' = before_get_object(view_kwargs)
        /\ UNCHANGED <<tickets, related, inflight>>

NextDetail ==
    \/ Detail
    \/ Return

SpecDetail == InitDetail /\ [][NextDetail]_vars

\* ---- properties ------------------------------------------------------------
IsWrite(req) == req.op \in {"POST", "PATCH"}

\* The sale window a write asks for: the payload's dates, a PATCH's missing
\* date taken from the row of the table it addresses.
EffectiveStart(req, table) ==
    IF req.data.sales_starts_at # Absent THEN req.data.sales_starts_at
    ELSE IF req.op = "PATCH" THEN table[req.id].sales_starts_at ELSE Absent

EffectiveEnd(req, table) ==
    IF req.data.sales_ends_at # Absent THEN req.data.sales_ends_at
    ELSE IF req.op = "PATCH" THEN table[req.id].sales_ends_at ELSE Absent

HasWindow(req, table) ==
    EffectiveStart(req, table) # Absent /\ EffectiveEnd(req, table) # Absent

WindowEmpty(req, table) ==
    HasWindow(req, table) /\ EffectiveStart(req, table) >= EffectiveEnd(req, table)

WindowOpen(req, table) ==
    HasWindow(req, table) /\ EffectiveStart(req, table) < EffectiveEnd(req, table)

IsCount(v) == v \in Nat

\* The comparisons of the count rule, on counts that are numbers.
MaxBelowMin(d) == IsCount(d.max_order) /\ IsCount(d.min_order) /\ d.max_order < d.min_order
QuantityBelowMin(d) == IsCount(d.quantity) /\ IsCount(d.min_order) /\ d.quantity < d.min_order
NoNullCount(d) == d.min_order # None /\ d.max_order # None /\ d.quantity # None

\* A payload that passes the schema and names an event.
WellFormed(d) ==
    /\ d.sales_starts_at # Absent /\ d.sales_ends_at # Absent
    /\ d.sales_starts_at < d.sales_ends_at
    /\ NoNullCount(d)
    /\ ~MaxBelowMin(d) /\ ~QuantityBelowMin(d)
    /\ d.event # Absent

\* C1: every stored ticket has sales_starts_at < sales_ends_at, whatever
\* sequence of POST and PATCH requests was accepted.
StoredWindowOrdered ==
    \A id \in DOMAIN tickets : tickets[id].sales_starts_at < tickets[id].sales_ends_at

\* C1 witness: an accepted PATCH that supplied only sales_starts_at and moved
\* the stored start.
PatchedStartOnly ==
    /\ request.op = "PATCH"
    /\ response.kind = "OK"
    /\ request.data.sales_starts_at \notin {Absent, 0}
    /\ request.data.sales_ends_at = Absent
    /\ tickets[request.id].sales_starts_at = request.data.sales_starts_at

\* C2: every stored ticket with min_order and max_order set has
\* min_order <= max_order, and with min_order and quantity set has
\* min_order <= quantity.
StoredQuantitiesOrdered ==
    \A id \in DOMAIN tickets :
        LET t == tickets[id]
        IN  /\ (t.min_order # None /\ t.max_order # None) => t.min_order <= t.max_order
            /\ (t.min_order # None /\ t.quantity # None) => t.min_order <= t.quantity

OnlyDeclaredErrors ==
    response.kind \in {"none", "Created", "OK", "ok", "ObjectNotFound", "UnprocessableEntity"}

\* C6: a POST creates a ticket only with an event relationship and
\* co-organizer access to it, and a POST without that access ends with
\* ObjectNotFound.
PostNeedsCoorganizer ==
    request.op = "POST" =>
        /\ response.kind = "Created" => (request.access /\ request.data.event # Absent)
        /\ (~request.access /\ WellFormed(request.data)) => response.kind = "ObjectNotFound"

\* C7: the list is the set of tickets that satisfy every supplied filter, and
\* a supplied tag, access code or order that does not exist gives
\* ObjectNotFound.
ListIsIntersection ==
    (/\ request.op = "LIST"
     /\ request.view_kwargs.order_identifier = Absent
     /\ request.view_kwargs.event_id \in Events \cup {Absent})
    => LET kw == request.view_kwargs
           unknown == \/ kw.ticket_tag_id \notin TicketTags \cup {Absent}
                      \/ kw.access_code_id \notin AccessCodes \cup {Absent}
                      \/ kw.order_id \notin DOMAIN orders \cup {Absent}
       IN  IF unknown
           THEN response.kind = "ObjectNotFound"
           ELSE /\ response.kind = "ok"
                /\ response.result =
                     {t \in DOMAIN tickets :
                        /\ kw.ticket_tag_id # Absent => <<t, kw.ticket_tag_id>> \in ticket_tags_table
                        /\ kw.event_id # Absent => tickets[t].event = kw.event_id
                        /\ kw.access_code_id # Absent => <<t, kw.access_code_id>> \in access_codes
                        /\ kw.order_id # Absent => t \in orders[kw.order_id].tickets}

\* C8: listing by order_identifier alone gives the tickets of the order with
\* that identifier, and ObjectNotFound when no order has it.
ListByOrderIdentifier ==
    (/\ request.op = "LIST"
     /\ request.view_kwargs.order_identifier # Absent
     /\ request.view_kwargs.ticket_tag_id = Absent
     /\ request.view_kwargs.event_id = Absent
     /\ request.view_kwargs.access_code_id = Absent)
    => LET named == {o \in DOMAIN orders :
                        orders[o].identifier = request.view_kwargs.order_identifier}
       IN  IF named = {}
           THEN response.kind = "ObjectNotFound"
           ELSE /\ response.kind = "ok"
                /\ \A o \in named : response.result = orders[o].tickets \cap DOMAIN tickets

\* C9: with attendee_id the looked-up id becomes the attendee's ticket_id
\* (None when the attendee has no ticket), an unknown attendee gives
\* ObjectNotFound for attendee_id, and without attendee_id the view arguments
\* stay as they were.
DetailByAttendee ==
    request.op = "DETAIL" =>
        LET kw == request.view_kwargs
        IN  /\ kw.attendee_id = Absent =>
                  (response.kind = "ok" /\ response.view_kwargs = kw)
            /\ (kw.attendee_id # Absent /\ kw.attendee_id \notin DOMAIN ticket_holders) =>
                  (response.kind = "ObjectNotFound" /\ response.parameter = "attendee_id")
            /\ (kw.attendee_id # Absent /\ kw.attendee_id \in DOMAIN ticket_holders) =>
                  /\ response.kind = "ok"
                  /\ response.view_kwargs.id = ticket_holders[kw.attendee_id].ticket_id
                  /\ response.view_kwargs.attendee_id = kw.attendee_id

\* C9 witness: the ticket_id of the attendee replaced another id that was in
\* the view arguments.
DetailOverrodeId ==
    /\ request.op = "DETAIL"
    /\ request.view_kwargs.attendee_id \in DOMAIN ticket_holders
    /\ request.view_kwargs.id \notin {Absent, ticket_holders[request.view_kwargs.attendee_id].ticket_id}
    /\ ticket_holders[request.view_kwargs.attendee_id].ticket_id # None
    /\ response.kind = "ok"
    /\ response.view_kwargs.id = ticket_holders[request.view_kwargs.attendee_id].ticket_id

\* C10: once no PATCH is in flight, every stored ticket has
\* sales_starts_at < sales_ends_at, however the validations and writes of two
\* PATCH requests interleaved.
InterleavedWindowOrdered ==
    (\A p \in Procs : inflight[p].pc = "idle")
        => \A id \in DOMAIN tickets :
               tickets[id].sales_starts_at < tickets[id].sales_ends_at

====
